---- MODULE Spec2Model ----
(***************************************************************************)
(* A model of the SecureVision per-channel pipeline                        *)
(* (securevision-api/app/services/utils.py and image_processor.py):        *)
(* the POB codec, the share splitter, the recovery watermark, the          *)
(* embedder, the extractor, the detection-watermark comparison and the     *)
(* tent-map permutation builder.                                           *)
(*                                                                         *)
(* Bit vectors are sequences over {0,1}.  A numpy array a[0..n-1] is the   *)
(* sequence <<a[0], ..., a[n-1]>>, so numpy index k is TLA+ index k+1.     *)
(***************************************************************************)
EXTENDS Integers, Sequences, FiniteSets, TLC

VARIABLES
    \* --- POB codec calls (pob, calculate_pob_value) ---
    codec_pc,      \* "idle", "decoded", "reencoded", "encoded", "redecoded"
    n_in, r_in, v_in,  \* the arguments of the last pob(n, r, v) call
    B_in,          \* the argument of the last calculate_pob_value call
    B_out,         \* the vector pob returned
    v_out,         \* the value calculate_pob_value returned
    pob_outcome,   \* how the pob call ended: "none", "returned" or an error kind
    \* --- generate_pob_image_shares ---
    split_pc,      \* "idle" or "split"
    image,         \* the argument: a 2-D array of pixels
    rand_fill,     \* the bits np.random.choice drew for the zero positions
    rand_mask,     \* the array r that np.random.choice drew
    shares,        \* the returned tuple: [r1, r2, share_1, share_2]
    \* --- generate_recovery_watermark ---
    rec_pc,        \* "idle" or "done"
    rec_image,     \* the argument image
    rec_seq1, rec_seq2,   \* indices_sequence_1, indices_sequence_2
    recovery_watermark,   \* the local array of 5-bit codes, before scattering
    rec_out,       \* the returned pair [RW1, RW2]
    \* --- check_detection_watermark ---
    det_pc,        \* "idle" or "done"
    dw, rdw,       \* the arguments: per block, three bits
    det_out,       \* the returned pair [count11, blocks_tampered]
    \* --- generate_embedded_shares, then receiver_extraction ---
    emb_pc,        \* "idle", "embedded" or "extracted"
    emb_in,        \* the eight arguments of generate_embedded_shares
    embedded,      \* the returned list [ES1, ES2, R3, R4]
    extraction,    \* the list receiver_extraction returned
    \* --- process_channel_encryption, then process_channel_decryption ---
    ch_pc,         \* "idle", "encrypted" or "decrypted"
    channel_array, \* the channel handed to process_channel_encryption
    ch_draw,       \* what the run drew: fill, mask, the detection parities
    ch_seq,        \* [s1, s2]: recovery_sequence_1, recovery_sequence_2
    ch_mid,        \* R1, R2, S1, S2, DW1, DW2, RW1, RW2 of the run
    ch_out,        \* the returned (ES1, ES2, R3, R4)
    ch_extracted,  \* the list receiver_extraction returned to the decryption
    extracted_channel,  \* what process_channel_decryption returned
    \* --- generate_tent_map_random_numbers ---
    tent_pc,       \* "idle", "loop" or "returned"
    seed,          \* the seed, advanced by every pass of the loop
    random_number, \* the number the last pass computed, -1 before the first
    insert_index,  \* how many entries of unique_numbers are filled
    unique_numbers,\* the array under construction, -1 where unfilled;
                   \* the returned array once tent_pc = "returned"
    number_present,\* the marks, one per value
    passes,        \* the passes the loop of a canonical seed has made
    \* --- process_channel_encryption on two covers ---
    hid_pc,        \* "idle" or "encrypted"
    hid_cover,     \* the cover of the first run
    hid_other,     \* the cover of the two other runs
    hid_run,       \* the draw, the arrays and the returned tuple of the first run
    hid_first,     \* those of the other cover under the draw matching a
    hid_second,    \* those of the other cover under the draw matching b
    \* --- the endpoints /api/v1/encrypt and /api/v1/decrypt ---
    api_pc,        \* "idle", "encrypt", "decrypt", "processing", "raised", "responded"
    api_endpoint,  \* "none", "encrypt" or "decrypt": the endpoint of the request
    api_img,       \* img: "none" for None, or the shape of the decoded array
    api_filename,  \* encrypted_package.filename, its characters one by one
    api_e,         \* the exception raised inside the try block
    api_calls,     \* how many times encrypt_image or decrypt_image was called
    api_response   \* the response the client receives

codecVars == <<codec_pc, n_in, r_in, v_in, B_in, B_out, v_out, pob_outcome>>
splitVars == <<split_pc, image, rand_fill, rand_mask, shares>>

recVars == <<rec_pc, rec_image, rec_seq1, rec_seq2, recovery_watermark, rec_out>>
detVars == <<det_pc, dw, rdw, det_out>>

embVars == <<emb_pc, emb_in, embedded, extraction>>

chVars == <<ch_pc, channel_array, ch_draw, ch_seq, ch_mid, ch_out, ch_extracted,
           extracted_channel>>

tentVars == <<tent_pc, seed, random_number, insert_index, unique_numbers, number_present,
             passes>>

hidVars == <<hid_pc, hid_cover, hid_other, hid_run, hid_first, hid_second>>

apiVars == <<api_pc, api_endpoint, api_img, api_filename, api_e, api_calls, api_response>>

vars == <<codecVars, splitVars, recVars, detVars, embVars, chVars, tentVars, hidVars,
          apiVars>>

----------------------------------------------------------------------------
(* The state before any call.  Every specification below starts here and   *)
(* exercises one part of the pipeline.                                     *)

CodecIdle ==
    /\ codec_pc = "idle"
    /\ n_in = 0 /\ r_in = 0 /\ v_in = 0
    /\ B_in = <<>> /\ B_out = <<>> /\ v_out = 0
    /\ pob_outcome = "none"

SplitIdle ==
    /\ split_pc = "idle"
    /\ image = <<>> /\ rand_fill = <<>> /\ rand_mask = <<>> /\ shares = <<>>

RecIdle ==
    /\ rec_pc = "idle"
    /\ rec_image = <<>> /\ rec_seq1 = <<>> /\ rec_seq2 = <<>>
    /\ recovery_watermark = <<>> /\ rec_out = <<>>

DetIdle ==
    /\ det_pc = "idle"
    /\ dw = <<>> /\ rdw = <<>> /\ det_out = <<>>

EmbIdle ==
    /\ emb_pc = "idle"
    /\ emb_in = <<>> /\ embedded = <<>> /\ extraction = <<>>

ChIdle ==
    /\ ch_pc = "idle"
    /\ channel_array = <<>> /\ ch_draw = <<>> /\ ch_seq = <<>>
    /\ ch_mid = <<>> /\ ch_out = <<>> /\ ch_extracted = <<>> /\ extracted_channel = <<>>

TentIdle ==
    /\ tent_pc = "idle"
    /\ seed = <<>> /\ random_number = -1 /\ insert_index = 0
    /\ unique_numbers = <<>> /\ number_present = <<>> /\ passes = 0

HidingIdle ==
    /\ hid_pc = "idle"
    /\ hid_cover = <<>> /\ hid_other = <<>>
    /\ hid_run = <<>> /\ hid_first = <<>> /\ hid_second = <<>>

ApiIdle ==
    /\ api_pc = "idle"
    /\ api_endpoint = "none"
    /\ api_img = "none"
    /\ api_filename = <<>>
    /\ api_e = <<>>
    /\ api_calls = 0
    /\ api_response = <<>>

Init ==
    /\ CodecIdle /\ SplitIdle /\ RecIdle /\ DetIdle /\ EmbIdle /\ ChIdle /\ TentIdle
    /\ HidingIdle /\ ApiIdle

----------------------------------------------------------------------------
(* Bounds of the model *)

\* Largest weight r handed to pob: one past 10 makes r > n happen for n = 10.
MaxWeight == 11
\* Largest index v handed to pob: above C(10,5) - 1 = 251, so v >= C(n, r) happens.
MaxIndex == 255
\* The channel is ImgRows x ImgCols = (2 * BlockRows) x (2 * BlockCols) pixels
\* (the program fixes 256 x 256, that is 128 x 128 blocks).
BlockRows == 1
BlockCols == 2
\* Random draws tried per call: zero-position fills and (elsewhere) masks.
NumFills == 2
\* Channels and masks tried by the calls of generate_pob_image_shares.
NumChannels == 16
NumMasks == 16
\* Pre-embedding share pairs tried by the calls of generate_embedded_shares.
NumSharePairs == 4
\* Channels and masks tried by the runs of the whole channel pipeline.
NumRunChannels == 8
NumRunMasks == 8
NumRunSequences == 4
\* the tent-map loop: the slots of the scaled arrays, the passes of a step
\* and the passes a call may make
NumSlots == 5
MaxRun == 2000
MaxPasses == 240000
\* the slots in a row of an array of the loop
RowWidth == 128
\* the covers and the mask arrays of the runs on two covers
NumCovers == 4
NumCoverMasks == 8
\* the exponents of the sampled seeds and the passes made from each
NumExponents == 8
MaxSteps == 2
\* the longest filename of an upload to /api/v1/decrypt
MaxNameLen == 5

----------------------------------------------------------------------------
(* Helpers for sequences of bits *)

Bit == {0, 1}

\* The sequence <<F(lo), ..., F(hi)>>, built by halving the range
RECURSIVE TabulateRange(_, _, _)
TabulateRange(F(_), lo, hi) ==
    IF lo > hi THEN <<>>
    ELSE IF lo = hi THEN <<F(lo)>>
    ELSE TabulateRange(F, lo, (lo + hi) \div 2) \o TabulateRange(F, ((lo + hi) \div 2) + 1, hi)

\* The sequence <<F(1), ..., F(n)>>: a numpy array filled entry by entry
Tabulate(F(_), n) == TabulateRange(F, 1, n)

RECURSIVE SumSeq(_)
SumSeq(s) == IF s = <<>> THEN 0 ELSE Head(s) + SumSeq(Tail(s))

\* np.sum over a 0/1 vector
popcount(B) == SumSeq(B)

XorBit(x, y) == IF x = y THEN 0 ELSE 1

\* np.bitwise_xor of two equally long 0/1 vectors
bitwise_xor(a, b) == Tabulate(LAMBDA k : XorBit(a[k], b[k]), Len(a))

\* All 0/1 vectors of length n
BitVectors(n) == [1..n -> Bit]

----------------------------------------------------------------------------
(* scipy.special.comb(N, k, exact=True): the binomial coefficient, 0 when  *)
(* k < 0 or k > N.                                                         *)

RECURSIVE Binomial(_, _)
Binomial(N, k) ==
    IF k = 0 THEN 1
    ELSE IF N = 0 THEN 0
    ELSE Binomial(N - 1, k - 1) + Binomial(N - 1, k)

BinomialTable == [N \in 0..10 |-> [k \in 0..10 |-> Binomial(N, k)]]

comb(N, k) == IF k < 0 \/ k > N THEN 0 ELSE BinomialTable[N][k]

----------------------------------------------------------------------------
(* calculate_pob_value(binary_array)                                       *)

\* reversed_array[pos], pos = 0..n-1  (binary_array[::-1])
ReversedAt(binary_array, pos) == binary_array[Len(binary_array) - pos]

\* The loop over one_positions, scanning pos upwards with cum =
\* np.cumsum(reversed_array)[pos - 1].  Position 0 adds to the cumulative sum
\* but is excluded from one_positions.  With no one position above 0 the sum
\* is empty: the early return of 0.
RECURSIVE PobScan(_, _, _)
PobScan(binary_array, pos, cum) ==
    IF pos > Len(binary_array) - 1 THEN 0
    ELSE IF ReversedAt(binary_array, pos) = 1
      THEN (IF pos > 0 THEN comb(pos, cum + 1) ELSE 0)
             + PobScan(binary_array, pos + 1, cum + 1)
      ELSE PobScan(binary_array, pos + 1, cum)

calculate_pob_value(binary_array) == PobScan(binary_array, 0, 0)

----------------------------------------------------------------------------
(* pob(n, r, v)                                                            *)

\* PobStep with the comparison x < temp in place of x <= temp
PobStepStrict(i, st) ==
    LET x == comb(i, st.t) IN
    IF x < st.temp
      THEN [t |-> st.t - 1, temp |-> st.temp - x, B |-> [st.B EXCEPT ![i + 1] = 1]]
      ELSE st

\* One run of the loop body for index i, on the state <<t, temp, B>>; B is
\* the array before the final reversal, B[k+1] holding numpy's B[k].
PobStep(i, st) ==
    LET x == comb(i, st.t) IN
    IF x <= st.temp
      THEN [t |-> st.t - 1, temp |-> st.temp - x, B |-> [st.B EXCEPT ![i + 1] = 1]]
      ELSE st

\* for i in range(n - 1, 0, -1)
RECURSIVE PobLoop(_, _)
PobLoop(i, st) == IF i < 1 THEN st ELSE PobLoop(i - 1, PobStep(i, st))

PobFinalBit(st) == IF st.t # 0 THEN [st.B EXCEPT ![1] = 1] ELSE st.B

\* B[::-1]
Reversed(B) == Tabulate(LAMBDA k : B[Len(B) + 1 - k], Len(B))

pob(n, r, v) ==
    Reversed(PobFinalBit(PobLoop(n - 1, [t |-> r, temp |-> v, B |-> Tabulate(LAMBDA k : 0, n)])))

----------------------------------------------------------------------------
(* Arrays.  A 2-D numpy array is a sequence of rows; a flat one a sequence. *)

ImgRows == 2 * BlockRows
ImgCols == 2 * BlockCols
NumPixels == ImgRows * ImgCols
NumBlocks == BlockRows * BlockCols

\* image.flatten(): row-major
flatten(arr) ==
    Tabulate(LAMBDA j : arr[((j - 1) \div ImgCols) + 1][((j - 1) % ImgCols) + 1], NumPixels)

\* flat.reshape(original_shape)
reshape(flat) ==
    Tabulate(LAMBDA row : Tabulate(LAMBDA col : flat[(row - 1) * ImgCols + col], ImgCols), ImgRows)

RECURSIVE Pow2(_)
Pow2(k) == IF k = 0 THEN 1 ELSE 2 * Pow2(k - 1)

\* The low n bits of x, MSB first
Bits(x, n) == Tabulate(LAMBDA k : (x \div Pow2(n - k)) % 2, n)

\* ((p & (1 << np.arange(7,-1,-1))) > 0).astype(int): the bits of p, MSB first
Bits8(p) == Bits(p, 8)

\* arr.reshape(h//2, 2, w//2, 2).transpose(0, 2, 1, 3).reshape(-1, 2, 2):
\* block k = br * (w//2) + bc holds arr[2*br + i][2*bc + j] at [i][j]; the
\* model keeps a block's four cells in row-major order, cell c = 2*i + j.
Blocks(arr) ==
    Tabulate(LAMBDA k :
        Tabulate(LAMBDA c :
            arr[2 * ((k - 1) \div BlockCols) + ((c - 1) \div 2) + 1]
               [2 * ((k - 1) % BlockCols) + ((c - 1) % 2) + 1], 4), NumBlocks)

\* np.cumsum(binary_arrays, axis=1)[k] for one pixel
RECURSIVE Cumsum(_, _)
Cumsum(bits, k) == IF k < 1 THEN 0 ELSE bits[k] + Cumsum(bits, k - 1)

----------------------------------------------------------------------------
(* generate_pob_image_shares(image), with the two random draws as inputs:  *)
(* fill[j] are the bits drawn for pixel j's zero positions (a bit drawn    *)
(* for a one position is not used), mask[j] is row j of the array r.       *)

\* a before the mask: random at zero positions, cumulative parity at ones
SiblingSeed(bits, fill) ==
    Tabulate(LAMBDA k : IF bits[k] = 0 THEN fill[k]
                        ELSE IF Cumsum(bits, k) % 2 = 0 THEN 1 ELSE 0, 8)

\* SiblingA without the XOR with r
SiblingUnmasked(bits, fill, mask) == SiblingSeed(bits, fill)

\* a = np.bitwise_xor(a, r)
SiblingA(bits, fill, mask) == bitwise_xor(SiblingSeed(bits, fill), mask)

\* SiblingB with a bitwise OR in place of the XOR
SiblingBOr(a, bits) == Tabulate(LAMBDA k : IF a[k] = 1 \/ bits[k] = 1 THEN 1 ELSE 0, 8)

\* b = np.bitwise_xor(a, binary_arrays)
SiblingB(a, bits) == bitwise_xor(a, bits)

\* r1, r2 (np.sum) and share_1, share_2 (calculate_pob_value) of one pixel
SplitOutputs(a, bits) ==
    [r1 |-> popcount(a), r2 |-> popcount(SiblingB(a, bits)),
     share_1 |-> calculate_pob_value(a),
     share_2 |-> calculate_pob_value(SiblingB(a, bits))]

\* the four outputs for one pixel
SplitBits(bits, fill, mask) == SplitOutputs(SiblingA(bits, fill, mask), bits)

SplitPixel(p, fill, mask) == SplitBits(Bits8(p), fill, mask)

\* the tuple returned, each array reshaped to the image's dimensions
SplitResult(out) ==
    [r1      |-> reshape(Tabulate(LAMBDA j : out[j].r1, NumPixels)),
     r2      |-> reshape(Tabulate(LAMBDA j : out[j].r2, NumPixels)),
     share_1 |-> reshape(Tabulate(LAMBDA j : out[j].share_1, NumPixels)),
     share_2 |-> reshape(Tabulate(LAMBDA j : out[j].share_2, NumPixels))]

SplitFlat(flat_image, fill, mask) ==
    SplitResult(Tabulate(LAMBDA j : SplitPixel(flat_image[j], fill[j], mask[j]), NumPixels))

generate_pob_image_shares(img, fill, mask) == SplitFlat(flatten(img), fill, mask)

----------------------------------------------------------------------------
(* Inputs the model draws: channels and random arrays.  A channel of the   *)
(* family has pixel (base + 37 * j) mod 256 at flat index j, so that every *)
(* pixel value occurs at every position; a random array likewise.          *)

ByteRamp(base, step) == Tabulate(LAMBDA j : (base + step * (j - 1)) % 256, NumPixels)

ChannelOf(c) == reshape(ByteRamp(85 * c, 37))

\* a (total_pixels, 8) array of bits from a ramp of bytes
BitRows(base, step) == Tabulate(LAMBDA j : Bits8((base + step * (j - 1)) % 256), NumPixels)

FillOf(f) == BitRows(85 * f, 101)
MaskOf(m) == BitRows(67 * m, 59)

----------------------------------------------------------------------------
(* A call of generate_pob_image_shares *)

SplitCall(img, fill, mask) ==
    /\ split_pc = "idle"
    /\ split_pc' = "split"
    /\ image' = img /\ rand_fill' = fill /\ rand_mask' = mask
    /\ shares' = generate_pob_image_shares(img, fill, mask)

Split ==
    /\ split_pc = "idle"
    /\ \E c \in 0..(NumChannels - 1), f \in 0..(NumFills - 1), m \in 0..(NumMasks - 1) :
          SplitCall(ChannelOf(c), FillOf(f), MaskOf(m))
    /\ UNCHANGED <<codecVars, recVars, detVars, embVars, chVars, tentVars, hidVars, apiVars>>

SplitNext == Split

SpecSplit == Init /\ [][SplitNext]_vars

----------------------------------------------------------------------------
(* Calls of the codec *)

PobLengths == {5, 8, 10}

ValidPair(n, r, v) == r \in 0..n /\ v >= 0 /\ v < comb(n, r)

\* pob(n, r, v) is called; it has no failure path and returns a vector.
PobCall(n, r, v) ==
    /\ codec_pc = "idle"
    /\ codec_pc' = "decoded"
    /\ n_in' = n /\ r_in' = r /\ v_in' = v
    /\ B_out' = pob(n, r, v)
    /\ pob_outcome' = "returned"
    /\ UNCHANGED <<B_in, v_out>>

\* calculate_pob_value on the vector pob returned
ReEncode ==
    /\ codec_pc = "decoded"
    /\ codec_pc' = "reencoded"
    /\ v_out' = calculate_pob_value(B_out)
    /\ UNCHANGED <<n_in, r_in, v_in, B_in, B_out, pob_outcome>>
    /\ UNCHANGED <<splitVars, recVars, detVars, embVars, chVars, tentVars, hidVars, apiVars>>

\* calculate_pob_value(B) is called on an n-bit vector
CalcCall(B) ==
    /\ codec_pc = "idle"
    /\ codec_pc' = "encoded"
    /\ B_in' = B
    /\ v_out' = calculate_pob_value(B)
    /\ UNCHANGED <<n_in, r_in, v_in, B_out, pob_outcome>>

\* pob on the weight of the vector and the value just computed
ReDecode ==
    /\ codec_pc = "encoded"
    /\ codec_pc' = "redecoded"
    /\ n_in' = Len(B_in) /\ r_in' = popcount(B_in) /\ v_in' = v_out
    /\ B_out' = pob(Len(B_in), popcount(B_in), v_out)
    /\ pob_outcome' = "returned"
    /\ UNCHANGED <<B_in, v_out>>
    /\ UNCHANGED <<splitVars, recVars, detVars, embVars, chVars, tentVars, hidVars, apiVars>>

\* a decode of any pair (r, v) within the bounds, valid or corrupted
Decode ==
    /\ codec_pc = "idle"
    /\ \E n \in PobLengths, r \in 0..MaxWeight, v \in 0..MaxIndex : PobCall(n, r, v)
    /\ UNCHANGED <<splitVars, recVars, detVars, embVars, chVars, tentVars, hidVars, apiVars>>

\* an encode of any bit vector of a length the pipeline uses
Encode ==
    /\ codec_pc = "idle"
    /\ \E n \in PobLengths : \E B \in BitVectors(n) : CalcCall(B)
    /\ UNCHANGED <<splitVars, recVars, detVars, embVars, chVars, tentVars, hidVars, apiVars>>

CodecNext == Decode \/ ReEncode \/ Encode \/ ReDecode

SpecCodec == Init /\ [][CodecNext]_vars

----------------------------------------------------------------------------
(* generate_recovery_watermark(image, indices_sequence_1, indices_sequence_2) *)

\* bin(m) without its "0b" prefix: the binary digits of m, none for m = 0
\* (lstrip("0b") strips the prefix and, for m = 0, the digit "0" as well).
RECURSIVE BinDigits(_)
BinDigits(m) == IF m = 0 THEN <<>> ELSE Append(BinDigits(m \div 2), m % 2)

\* str.zfill(width): zeros on the left up to the width, nothing cut
zfill(digits, width) ==
    IF Len(digits) >= width THEN digits
    ELSE Tabulate(LAMBDA k : 0, width - Len(digits)) \o digits

\* [bin_val[0], bin_val[1], bin_val[2], bin_val[3], bin_val[4]]
FirstFive(bin_val) == Tabulate(LAMBDA k : bin_val[k], 5)

\* (blocks.sum(axis=(1,2)) // 4).astype(np.uint8)
BlockMean(block) == (SumSeq(block) \div 4) % 256

\* one entry of recovery_watermark
RecoveryCode(m) == FirstFive(zfill(BinDigits(m), 5))

RecoveryCodes(img) == Tabulate(LAMBDA k : RecoveryCode(BlockMean(Blocks(img)[k])), NumBlocks)

\* recovery_watermark[indices_sequence, :, :]
Scatter(codes, indices_sequence) == Tabulate(LAMBDA k : codes[indices_sequence[k] + 1], NumBlocks)

generate_recovery_watermark(img, indices_sequence_1, indices_sequence_2) ==
    [RW1 |-> Scatter(RecoveryCodes(img), indices_sequence_1),
     RW2 |-> Scatter(RecoveryCodes(img), indices_sequence_2)]

\* Index sequences the model draws: the rotations of 0..NumBlocks-1 and
\* their reversals, each a permutation.
SequenceOf(s) ==
    Tabulate(LAMBDA k : IF s < NumBlocks THEN (s + k - 1) % NumBlocks
                        ELSE (s + NumBlocks - k) % NumBlocks, NumBlocks)

\* A channel whose block means run through every value as p does
GradientOf(p) == reshape(ByteRamp(p, 1))

RecCall(img, s1, s2) ==
    /\ rec_pc = "idle"
    /\ rec_pc' = "done"
    /\ rec_image' = img /\ rec_seq1' = s1 /\ rec_seq2' = s2
    /\ recovery_watermark' = RecoveryCodes(img)
    /\ rec_out' = generate_recovery_watermark(img, s1, s2)

Recover ==
    /\ rec_pc = "idle"
    /\ \E p \in 0..255, s1 \in 0..(2 * NumBlocks - 1), s2 \in 0..(2 * NumBlocks - 1) :
          RecCall(GradientOf(p), SequenceOf(s1), SequenceOf(s2))
    /\ UNCHANGED <<codecVars, splitVars, detVars, embVars, chVars, tentVars, hidVars, apiVars>>

RecNext == Recover

SpecRecovery == Init /\ [][RecNext]_vars

----------------------------------------------------------------------------
(* check_detection_watermark(dw, rdw)                                      *)

\* dw[i].all(): whether all three bits are non-zero
AllBits(triple) == \A k \in 1..Len(triple) : triple[k] # 0

\* the loop over the blocks from i on, appending to blocks_tampered
RECURSIVE TamperedFrom(_, _, _)
TamperedFrom(d, rd, i) ==
    IF i > NumBlocks - 1 THEN <<>>
    ELSE (IF AllBits(d[i + 1]) # AllBits(rd[i + 1]) THEN <<i>> ELSE <<>>)
         \o TamperedFrom(d, rd, i + 1)

\* count11 is incremented with every append
check_detection_watermark(d, rd) ==
    [count11 |-> Len(TamperedFrom(d, rd, 0)), blocks_tampered |-> TamperedFrom(d, rd, 0)]

DetCall(d, rd) ==
    /\ det_pc = "idle"
    /\ det_pc' = "done"
    /\ dw' = d /\ rdw' = rd
    /\ det_out' = check_detection_watermark(d, rd)

Detect ==
    /\ det_pc = "idle"
    /\ \E d \in [1..NumBlocks -> BitVectors(3)], rd \in [1..NumBlocks -> BitVectors(3)] :
          DetCall(d, rd)
    /\ UNCHANGED <<codecVars, splitVars, recVars, embVars, chVars, tentVars, hidVars, apiVars>>

DetNext == Detect

SpecDetect == Init /\ [][DetNext]_vars

----------------------------------------------------------------------------
(* generate_embedded_shares.  A watermark array of shape (blocks, 1, k) is *)
(* a sequence of k-bit vectors, one per block.                             *)

\* blocks.reshape(h//2, w//2, 2, 2).transpose(0, 2, 1, 3).reshape(h, w):
\* the array whose [row][col] is cell 2*(row%2) + col%2 of block
\* (row//2) * (w//2) + col//2.
Unblocks(blocks) ==
    Tabulate(LAMBDA row :
        Tabulate(LAMBDA col :
            blocks[((row - 1) \div 2) * BlockCols + ((col - 1) \div 2) + 1]
                  [2 * ((row - 1) % 2) + ((col - 1) % 2) + 1], ImgCols), ImgRows)

\* The two watermark bits written to columns 8:10 of cell c (1..4) of a block
WatermarkBits(c, dwk, rwk) ==
    IF c = 1 THEN <<dwk[1], dwk[2]>>
    ELSE IF c = 2 THEN <<dwk[3], rwk[1]>>
    ELSE IF c = 3 THEN <<rwk[2], rwk[3]>>
    ELSE <<rwk[4], rwk[5]>>

\* extended_arrays[i, c]: pob(8, ...) in columns 0:8, then the watermark bits
ExtendedCell(rr, vv, c, dwk, rwk) == pob(8, rr, vv) \o WatermarkBits(c, dwk, rwk)

ExtendedArrays(share_blocks, seq_blocks, detection_watermark, recovery_wm) ==
    Tabulate(LAMBDA i :
        Tabulate(LAMBDA c :
            ExtendedCell(seq_blocks[i][c], share_blocks[i][c], c,
                         detection_watermark[i], recovery_wm[i]), 4), NumBlocks)

\* pob_share_result: calculate_pob_value of every 10-bit row, as an image
EmbeddedShare(extended_arrays) ==
    Unblocks(Tabulate(LAMBDA i :
        Tabulate(LAMBDA c : calculate_pob_value(extended_arrays[i][c]), 4), NumBlocks))

\* the sum over the eight bits of the POB(8) pattern only
ShareSumOfPattern(extended_arrays) ==
    Unblocks(Tabulate(LAMBDA i :
        Tabulate(LAMBDA c : popcount(SubSeq(extended_arrays[i][c], 1, 8)), 4), NumBlocks))

\* sum_share_result: np.sum(extended_arrays, axis=2), as an image
ShareSum(extended_arrays) ==
    Unblocks(Tabulate(LAMBDA i :
        Tabulate(LAMBDA c : popcount(extended_arrays[i][c]), 4), NumBlocks))

EmbedResult(ext1, ext2) ==
    [ES1 |-> EmbeddedShare(ext1), ES2 |-> EmbeddedShare(ext2),
     R3 |-> ShareSum(ext1), R4 |-> ShareSum(ext2)]

\* the arguments in the order of the source: pob_share_1/2, rand_num_seq_1/2,
\* detection_watermark_1/2, recovery_watermark_1/2
generate_embedded_shares(ps1, ps2, rs1, rs2, dw1, dw2, rw1, rw2) ==
    EmbedResult(ExtendedArrays(Blocks(ps1), Blocks(rs1), dw1, rw1),
                ExtendedArrays(Blocks(ps2), Blocks(rs2), dw2, rw2))

----------------------------------------------------------------------------
(* receiver_extraction(es1, es2, r11, r22)                                 *)

\* dec_num(arr): the number the bits spell, MSB first
dec_num(arr) == SumSeq(Tabulate(LAMBDA i : arr[i] * Pow2(Len(arr) - i), Len(arr)))

\* arr2blocks(arr, 2, 2)
arr2blocks(arr) ==
    Tabulate(LAMBDA k :
        Tabulate(LAMBDA c :
            arr[2 * ((k - 1) \div BlockCols) + ((c - 1) \div 2) + 1]
               [2 * ((k - 1) % BlockCols) + ((c - 1) % 2) + 1], 4), NumBlocks)

\* blocks2arr(arr, 256, 256)
blocks2arr(blocks) ==
    Tabulate(LAMBDA row :
        Tabulate(LAMBDA col :
            blocks[((row - 1) \div 2) * BlockCols + ((col - 1) \div 2) + 1]
                  [2 * ((row - 1) % 2) + ((col - 1) % 2) + 1], ImgCols), ImgRows)

\* pe[0:8]
Payload(pe) == SubSeq(pe, 1, 8)

\* pe1..pe4 of every block: pob(10, r, e) of its four cells
ExpandedBlocks(es_blocks, r_blocks) ==
    Tabulate(LAMBDA i :
        Tabulate(LAMBDA c : pob(10, r_blocks[i][c], es_blocks[i][c]), 4), NumBlocks)

\* s1/s2: calculate_pob_value(pe[0:8]) of every cell, stored as uint8
ExtractedShare(pe) ==
    blocks2arr(Tabulate(LAMBDA i :
        Tabulate(LAMBDA c : calculate_pob_value(Payload(pe[i][c])) % 256, 4), NumBlocks))

\* s3/s4: dec_num(pe[0:8]) of every cell, stored as uint8
ExtractedPixels(pe) ==
    blocks2arr(Tabulate(LAMBDA i :
        Tabulate(LAMBDA c : dec_num(Payload(pe[i][c])) % 256, 4), NumBlocks))

\* dw1[i] = [[pe1[8], pe1[9], pe2[8]]]
ExtractedDetection(pe) ==
    Tabulate(LAMBDA i : <<pe[i][1][9], pe[i][1][10], pe[i][2][9]>>, NumBlocks)

\* ExtractedRecovery reading pe2[8] in place of pe2[9] for the first bit
ExtractedRecoveryShifted(pe) ==
    Tabulate(LAMBDA i : <<pe[i][2][9], pe[i][3][9], pe[i][3][10],
                          pe[i][4][9], pe[i][4][10]>>, NumBlocks)

\* dr1[i] = [[pe2[9], pe3[8], pe3[9], pe4[8], pe4[9]]]
ExtractedRecovery(pe) ==
    Tabulate(LAMBDA i : <<pe[i][2][10], pe[i][3][9], pe[i][3][10],
                          pe[i][4][9], pe[i][4][10]>>, NumBlocks)

ExtractResult(pe1, pe2) ==
    [share1 |-> ExtractedShare(pe1), share2 |-> ExtractedShare(pe2),
     dw1 |-> ExtractedDetection(pe1), dw2 |-> ExtractedDetection(pe2),
     dr1 |-> ExtractedRecovery(pe1), dr2 |-> ExtractedRecovery(pe2),
     share3 |-> ExtractedPixels(pe1), share4 |-> ExtractedPixels(pe2)]

receiver_extraction(es1, es2, r11, r22) ==
    ExtractResult(ExpandedBlocks(arr2blocks(es1), arr2blocks(r11)),
                  ExpandedBlocks(arr2blocks(es2), arr2blocks(r22)))

----------------------------------------------------------------------------
(* Calls of the embedder and of the extractor on its untampered output.    *)
(* The inputs drawn: valid pre-embedding shares (the POB(8) pair of an     *)
(* 8-bit vector in every cell) and every 3-bit and 5-bit watermark value.  *)

\* the POB(8) share and weight map of an array of 8-bit rows
ShareOfRows(rows) ==
    [S |-> reshape(Tabulate(LAMBDA j : calculate_pob_value(rows[j]), NumPixels)),
     R |-> reshape(Tabulate(LAMBDA j : popcount(rows[j]), NumPixels))]

FirstShareOf(q) == ShareOfRows(BitRows(67 * q, 59))
SecondShareOf(q) == ShareOfRows(BitRows(113 * q + 255, 83))

\* watermark arrays: block k holds the bits of (d + 3k) mod 8, (w + 7k) mod 32
DetectionOf(d) == Tabulate(LAMBDA k : Bits((d + 3 * (k - 1)) % 8, 3), NumBlocks)
RecoveryOf(w) == Tabulate(LAMBDA k : Bits((w + 7 * (k - 1)) % 32, 5), NumBlocks)

EmbedInputs(q, d, w) ==
    [S1 |-> FirstShareOf(q).S, S2 |-> SecondShareOf(q).S,
     R1 |-> FirstShareOf(q).R, R2 |-> SecondShareOf(q).R,
     DW1 |-> DetectionOf(d), DW2 |-> DetectionOf(7 - d),
     RW1 |-> RecoveryOf(w), RW2 |-> RecoveryOf((w + 13) % 32)]

EmbedCall(in) ==
    /\ emb_pc = "idle"
    /\ emb_pc' = "embedded"
    /\ emb_in' = in
    /\ embedded' = generate_embedded_shares(in.S1, in.S2, in.R1, in.R2,
                                            in.DW1, in.DW2, in.RW1, in.RW2)
    /\ UNCHANGED extraction

ExtractCall ==
    /\ emb_pc = "embedded"
    /\ emb_pc' = "extracted"
    /\ extraction' = receiver_extraction(embedded.ES1, embedded.ES2, embedded.R3, embedded.R4)
    /\ UNCHANGED <<emb_in, embedded>>
    /\ UNCHANGED <<codecVars, splitVars, recVars, detVars, chVars, tentVars, hidVars, apiVars>>

Embed ==
    /\ emb_pc = "idle"
    /\ \E q \in 0..(NumSharePairs - 1), d \in 0..7, w \in 0..31 :
          EmbedCall(EmbedInputs(q, d, w))
    /\ UNCHANGED <<codecVars, splitVars, recVars, detVars, chVars, tentVars, hidVars, apiVars>>

EmbedNext == Embed \/ ExtractCall

SpecEmbed == Init /\ [][EmbedNext]_vars

(* The embedder on every POB(8) pattern: the first cell of the first share *)
(* holds the pattern of the bits of q and takes the detection bits d div   *)
(* 2, so that the cell's ten bits run through all 1024 vectors.            *)

CarrierInputs(q, d) ==
    [S1 |-> ShareOfRows(BitRows(q, 59)).S, S2 |-> ShareOfRows(BitRows(255 - q, 83)).S,
     R1 |-> ShareOfRows(BitRows(q, 59)).R, R2 |-> ShareOfRows(BitRows(255 - q, 83)).R,
     DW1 |-> DetectionOf(d), DW2 |-> DetectionOf(7 - d),
     RW1 |-> RecoveryOf((5 * d + q) % 32), RW2 |-> RecoveryOf((q + 13) % 32)]

EmbedEvery ==
    /\ emb_pc = "idle"
    /\ \E q \in 0..MaxIndex, d \in {0, 2, 4, 6} : EmbedCall(CarrierInputs(q, d))
    /\ UNCHANGED <<codecVars, splitVars, recVars, detVars, chVars, tentVars, hidVars, apiVars>>

CarrierNext == EmbedEvery

SpecCarrier == Init /\ [][CarrierNext]_vars

----------------------------------------------------------------------------
(* generate_detection_watermark(share_array).  The singular values s0 >=   *)
(* s1 of a block [[a, b], [c, d]] satisfy s0^2 + s1^2 = a^2+b^2+c^2+d^2    *)
(* and s0 * s1 = |ad - bc|, so delta = s0 - s1 has delta^2 = that sum      *)
(* minus 2|ad - bc|: wd2 = (delta >= 255) is decided on integers.  wd1 and *)
(* wd3 are parities of digits of the floating-point values delta and eta;  *)
(* the model takes them as drawn, parity[k] = <<wd1, wd3>> for block k.    *)

Abs(x) == IF x < 0 THEN 0 - x ELSE x

DeltaSquared(block) ==
    block[1] * block[1] + block[2] * block[2] + block[3] * block[3] + block[4] * block[4]
      - 2 * Abs(block[1] * block[4] - block[2] * block[3])

\* wd2 = (delta >= 255).astype(int)
ThresholdBit(block) == IF DeltaSquared(block) >= 255 * 255 THEN 1 ELSE 0

\* np.column_stack((wd1, wd2, wd3))
generate_detection_watermark(share_array, parity) ==
    Tabulate(LAMBDA k : <<parity[k][1], ThresholdBit(Blocks(share_array)[k]), parity[k][2]>>,
             NumBlocks)

----------------------------------------------------------------------------
(* process_channel_encryption and process_channel_decryption               *)

\* the intermediate arrays of one run, given the split and what was drawn
EncryptionArrays(channel, sh, parity1, parity2, seq1, seq2) ==
    [R1 |-> sh.r1, R2 |-> sh.r2, S1 |-> sh.share_1, S2 |-> sh.share_2,
     DW1 |-> generate_detection_watermark(sh.share_1, parity1),
     DW2 |-> generate_detection_watermark(sh.share_2, parity2),
     RW1 |-> generate_recovery_watermark(channel, seq1, seq2).RW1,
     RW2 |-> generate_recovery_watermark(channel, seq1, seq2).RW2]

\* [ES1, ES2, R3, R4] = generate_embedded_shares(S1, S2, R1, R2, DW1, DW2, RW1, RW2)
EmbedArrays(mid) ==
    generate_embedded_shares(mid.S1, mid.S2, mid.R1, mid.R2,
                             mid.DW1, mid.DW2, mid.RW1, mid.RW2)

\* np.bitwise_xor(RS3, RS4).astype(np.uint8) of two arrays of bytes
XorArrays(x, y) ==
    Tabulate(LAMBDA row :
        Tabulate(LAMBDA col : dec_num(bitwise_xor(Bits8(x[row][col]), Bits8(y[row][col]))) % 256,
                 ImgCols), ImgRows)

\* RecombineShares on the POB(8) index shares in place of the pixel shares
RecombineIndexShares(ex) == XorArrays(ex.share1, ex.share2)

\* the RS3 and RS4 of the extraction are XOR-ed
RecombineShares(ex) == XorArrays(ex.share3, ex.share4)

\* the detection parities the model draws for a run
ParityOf(q) == Tabulate(LAMBDA k : Bits((q + k - 1) % 4, 2), NumBlocks)

Encrypt(channel, fill, mask, parity1, parity2, seq1, seq2) ==
    /\ ch_pc = "idle"
    /\ ch_pc' = "encrypted"
    /\ channel_array' = channel
    /\ ch_draw' = [fill |-> fill, mask |-> mask, parity1 |-> parity1, parity2 |-> parity2]
    /\ ch_seq' = [s1 |-> seq1, s2 |-> seq2]
    /\ ch_mid' = EncryptionArrays(channel, generate_pob_image_shares(channel, fill, mask),
                                  parity1, parity2, seq1, seq2)
    /\ ch_out' = EmbedArrays(ch_mid')
    /\ UNCHANGED <<ch_extracted, extracted_channel>>

Decrypt ==
    /\ ch_pc = "encrypted"
    /\ ch_pc' = "decrypted"
    /\ ch_extracted' = receiver_extraction(ch_out.ES1, ch_out.ES2, ch_out.R3, ch_out.R4)
    /\ extracted_channel' = RecombineShares(ch_extracted')
    /\ UNCHANGED <<channel_array, ch_draw, ch_seq, ch_mid, ch_out>>
    /\ UNCHANGED <<codecVars, splitVars, recVars, detVars, embVars, tentVars, hidVars, apiVars>>

\* process_channel_encryption on a drawn channel, with the random arrays,
\* the detection parities and the index sequences of the run
EncryptChannel ==
    /\ ch_pc = "idle"
    /\ \E c \in 0..(NumRunChannels - 1), f \in 0..(NumFills - 1),
          m \in 0..(NumRunMasks - 1), s \in 0..(NumRunSequences - 1) :
          Encrypt(ChannelOf(c), FillOf(f), MaskOf(m), ParityOf(m % 4), ParityOf(3 - (m % 4)),
                  SequenceOf(s % (2 * NumBlocks)),
                  SequenceOf((s + NumBlocks + 1) % (2 * NumBlocks)))
    /\ UNCHANGED <<codecVars, splitVars, recVars, detVars, embVars, tentVars, hidVars, apiVars>>

ChannelNext == EncryptChannel \/ Decrypt

SpecChannel == Init /\ [][ChannelNext]_vars

----------------------------------------------------------------------------
(* What one share shows of the cover.  process_channel_encryption runs on  *)
(* a cover under a draw, and on another cover under two draws: the one     *)
(* that gives the other cover the same first sibling a in every pixel, and *)
(* the one that gives it the same second sibling b.                        *)

\* the draw, the arrays and the returned tuple of one run of
\* process_channel_encryption
RunRecord(draw, mid) == [draw |-> draw, mid |-> mid, out |-> EmbedArrays(mid)]

EncryptionRun(channel, draw) ==
    RunRecord(draw,
              EncryptionArrays(channel,
                               generate_pob_image_shares(channel, draw.fill, draw.mask),
                               draw.parity1, draw.parity2, draw.s1, draw.s2))

\* the row of r that gives the pixel of bits `other` the sibling a that the
\* row mask gives the pixel of bits `bits`
FirstMatch(bits, other, fill, mask) ==
    bitwise_xor(mask, bitwise_xor(SiblingSeed(bits, fill), SiblingSeed(other, fill)))

\* the same for the sibling b = a XOR bits
SecondMatch(bits, other, fill, mask) ==
    bitwise_xor(FirstMatch(bits, other, fill, mask), bitwise_xor(bits, other))

FirstMatchingDraw(flat, flat_other, draw) ==
    [draw EXCEPT !.mask =
        Tabulate(LAMBDA j : FirstMatch(Bits8(flat[j]), Bits8(flat_other[j]),
                                       draw.fill[j], draw.mask[j]), NumPixels)]

SecondMatchingDraw(flat, flat_other, draw) ==
    [draw EXCEPT !.mask =
        Tabulate(LAMBDA j : SecondMatch(Bits8(flat[j]), Bits8(flat_other[j]),
                                        draw.fill[j], draw.mask[j]), NumPixels)]

\* Covers the model draws.  Cover 2i is constant on every 2x2 block; cover
\* 2i + 1 adds 1 and subtracts 1 on the diagonals of each block, which
\* changes every pixel and no block mean.
CoverBase(i, row, col) ==
    20 + ((90 * i + 37 * ((row - 1) \div 2) + 53 * ((col - 1) \div 2)) % 200)

CoverOf(c) ==
    Tabulate(LAMBDA row :
        Tabulate(LAMBDA col :
            CoverBase(c \div 2, row, col)
              + (IF c % 2 = 0 THEN 0 ELSE IF (row + col) % 2 = 0 THEN 1 ELSE -1),
            ImgCols), ImgRows)

\* the draw of a run: random arrays, detection parities, index sequences
DrawOf(f, m) ==
    [fill |-> FillOf(f), mask |-> MaskOf(m),
     parity1 |-> ParityOf(m % 4), parity2 |-> ParityOf(3 - (m % 4)),
     s1 |-> SequenceOf(m % (2 * NumBlocks)),
     s2 |-> SequenceOf((m + NumBlocks + 1) % (2 * NumBlocks))]

EncryptBoth(channel, other_channel, draw) ==
    /\ hid_pc = "idle"
    /\ hid_pc' = "encrypted"
    /\ hid_cover' = channel
    /\ hid_other' = other_channel
    /\ hid_run' = EncryptionRun(channel, draw)
    /\ hid_first' = EncryptionRun(other_channel,
                        FirstMatchingDraw(flatten(channel), flatten(other_channel), draw))
    /\ hid_second' = EncryptionRun(other_channel,
                        SecondMatchingDraw(flatten(channel), flatten(other_channel), draw))

EncryptTwoCovers ==
    /\ hid_pc = "idle"
    /\ \E c \in 0..(NumCovers - 1), o \in 0..(NumCovers - 1),
          f \in 0..(NumFills - 1), m \in 0..(NumCoverMasks - 1) :
          c # o /\ EncryptBoth(CoverOf(c), CoverOf(o), DrawOf(f, m))
    /\ UNCHANGED <<codecVars, splitVars, recVars, detVars, embVars, chVars, tentVars, apiVars>>

HidingNext == EncryptTwoCovers

SpecHiding == Init /\ [][HidingNext]_vars

----------------------------------------------------------------------------
(* generate_tent_map_random_numbers(seed).  The seed is a Python float, an *)
(* IEEE-754 double, and the model computes with doubles exactly.  A        *)
(* positive double is the tuple <<m0, m1, m2, m3, e>> of value             *)
(* (m0 + m1*2^14 + m2*2^28 + m3*2^42) * 2^e, the mantissa in [2^52, 2^53)  *)
(* held in four digits of 14 bits; zero is <<0, 0, 0, 0, 0>>.              *)

\* 2^0 .. 2^14
PowersOfTwo == Tabulate(LAMBDA k : Pow2(k - 1), 15)

\* the number of binary digits of x
RECURSIVE BitLength(_)
BitLength(x) == IF x = 0 THEN 0 ELSE 1 + BitLength(x \div 2)

\* pow(10, -5) and pow(10, -8), the seeds of encrypt_image, as doubles:
\* 0x1.4f8b588e368f1p-17 and 0x1.5798ee2308c3ap-27
SeedOne == <<10481, 9101, 2904, 1342, -69>>
SeedTwo == <<3130, 2242, 6382, 1374, -79>>

\* the factor of the tent map without its perturbation: 2.0
TentFactorTwo == <<0, 0, 0, 1024, -51>>

\* the double nearest to 1.999999: 0x1.ffffef39085f5p+0
TentFactor == <<1525, 3650, 16367, 2047, -52>>

\* 10**14 = 5^14 * 2^14, exactly a double
TenToFourteen == <<489, 12081, 22, 0, 14>>

IsZero(x) == x[1] = 0 /\ x[2] = 0 /\ x[3] = 0 /\ x[4] = 0

\* carries propagated through the columns of a product, lowest digit first
RECURSIVE Propagate(_, _, _)
Propagate(cols, i, carry) ==
    IF i > Len(cols) THEN <<carry>>
    ELSE <<(cols[i] + carry) % 16384>>
           \o Propagate(cols, i + 1, (cols[i] + carry) \div 16384)

\* the exact product of two mantissas, in eight digits
Product(a, c) ==
    Propagate(<<a[1] * c[1],
                a[1] * c[2] + a[2] * c[1],
                a[1] * c[3] + a[2] * c[2] + a[3] * c[1],
                a[1] * c[4] + a[2] * c[3] + a[3] * c[2] + a[4] * c[1],
                a[2] * c[4] + a[3] * c[3] + a[4] * c[2],
                a[3] * c[4] + a[4] * c[3],
                a[4] * c[4]>>, 1, 0)

\* the index of the highest non-zero digit, 0 if there is none
RECURSIVE TopDigit(_, _)
TopDigit(p, i) == IF i = 0 THEN 0 ELSE IF p[i] # 0 THEN i ELSE TopDigit(p, i - 1)

\* digit i of p, zero beyond its length
DigitAt(p, i) == IF i <= Len(p) THEN p[i] ELSE 0

\* a mantissa that rounding has carried into, digit by digit
CarryInto(r0, r1, r2, r3, e) ==
    IF r0 < 16384 THEN <<r0, r1, r2, r3, e>>
    ELSE IF r1 + 1 < 16384 THEN <<0, r1 + 1, r2, r3, e>>
    ELSE IF r2 + 1 < 16384 THEN <<0, 0, r2 + 1, r3, e>>
    ELSE IF r3 + 1 < 2048 THEN <<0, 0, 0, r3 + 1, e>>
    ELSE <<0, 0, 0, 1024, e + 1>>

\* round to nearest, ties to even: the digits r of the quotient, and twice
\* the remainder (plus one if lower digits were dropped) against 2^t
RoundNearestEven(r0, r1, r2, r3, rem, full, e) ==
    IF rem > full \/ (rem = full /\ r0 % 2 = 1)
    THEN CarryInto(r0 + 1, r1, r2, r3, e)
    ELSE <<r0, r1, r2, r3, e>>

\* the digits q0.. of a product shifted right by t bits, 1 <= t <= 14, then
\* rounded
ShiftRound(q0, q1, q2, q3, q4, t, sticky, e) ==
    RoundNearestEven(
        (q0 \div PowersOfTwo[t + 1]) + (q1 % PowersOfTwo[t + 1]) * PowersOfTwo[15 - t],
        (q1 \div PowersOfTwo[t + 1]) + (q2 % PowersOfTwo[t + 1]) * PowersOfTwo[15 - t],
        (q2 \div PowersOfTwo[t + 1]) + (q3 % PowersOfTwo[t + 1]) * PowersOfTwo[15 - t],
        (q3 \div PowersOfTwo[t + 1]) + (q4 % PowersOfTwo[t + 1]) * PowersOfTwo[15 - t],
        2 * (q0 % PowersOfTwo[t + 1]) + (IF sticky THEN 1 ELSE 0),
        PowersOfTwo[t + 1], e)

\* an exact product p of L > 53 bits rounded to a mantissa of 53: s = L - 53
\* bits are shifted out, d whole digits and then 1 to 14 bits
RoundProduct(p, d, s, e) ==
    ShiftRound(DigitAt(p, d + 1), DigitAt(p, d + 2), DigitAt(p, d + 3),
               DigitAt(p, d + 4), DigitAt(p, d + 5), s - 14 * d,
               TopDigit(p, d) # 0, e + s)

ShiftedOut(p) == 14 * (TopDigit(p, Len(p)) - 1) + BitLength(p[TopDigit(p, Len(p))]) - 53

RoundedProduct(p, e) == RoundProduct(p, (ShiftedOut(p) - 1) \div 14, ShiftedOut(p), e)

\* a * c of two doubles, correctly rounded
Times(a, c) ==
    IF IsZero(a) \/ IsZero(c) THEN <<0, 0, 0, 0, 0>>
    ELSE RoundedProduct(Product(a, c), a[5] + c[5])

\* a mantissa of fewer than 53 bits shifted left until it has 53
RECURSIVE Normalize(_, _, _, _, _)
Normalize(m0, m1, m2, m3, e) ==
    IF m3 >= 1024 THEN <<m0, m1, m2, m3, e>>
    ELSE Normalize((2 * m0) % 16384, ((2 * m1) % 16384) + (m0 \div 8192),
                   ((2 * m2) % 16384) + (m1 \div 8192), (2 * m3) + (m2 \div 8192), e - 1)

\* 1 - x for a double x in [0.5, 1]: the difference is exact
OneMinus(x) ==
    IF x[5] = -52 THEN <<0, 0, 0, 0, 0>>
    ELSE Normalize((16384 - x[1]) % 16384,
                   (16384 + 16383 - x[2] + (IF x[1] = 0 THEN 1 ELSE 0)) % 16384,
                   (16384 + 16383 - x[3] + (IF x[1] = 0 /\ x[2] = 0 THEN 1 ELSE 0)) % 16384,
                   2047 - x[4] + (IF x[1] = 0 /\ x[2] = 0 /\ x[3] = 0 THEN 1 ELSE 0),
                   -53)

\* seed < 0.5
BelowHalf(x) == IsZero(x) \/ x[5] <= -54

\* the tent map: seed * 1.999999 below 0.5 and (1 - seed) * 1.999999 from
\* 0.5 on
TentMap(x) == IF BelowHalf(x) THEN Times(x, TentFactor) ELSE Times(OneMinus(x), TentFactor)

\* the digits of floor(x / 2^k) summed: the quotient modulo 16383 = 2^14 - 1,
\* for 1 <= k <= 52, d whole digits and b further bits shifted out
QuotientDigits(x, d, b) ==
    (IF d <= 0 THEN x[1] \div PowersOfTwo[b + 1] ELSE 0)
    + (IF d <= 1 THEN x[2] \div PowersOfTwo[b + 1] ELSE 0)
    + (IF d <= 2 THEN x[3] \div PowersOfTwo[b + 1] ELSE 0)
    + (x[4] \div PowersOfTwo[b + 1])
    + (IF d <= 0 THEN (x[2] % PowersOfTwo[b + 1]) * PowersOfTwo[15 - b] ELSE 0)
    + (IF d <= 1 THEN (x[3] % PowersOfTwo[b + 1]) * PowersOfTwo[15 - b] ELSE 0)
    + (IF d <= 2 THEN (x[4] % PowersOfTwo[b + 1]) * PowersOfTwo[15 - b] ELSE 0)

\* whether the bits of x below bit h of digit d are all zero
ZeroBelow(x, d, h) ==
    /\ x[d + 1] % PowersOfTwo[h + 1] = 0
    /\ \A i \in 1..d : x[i] = 0

\* round(y) for y = j + f, the integer j and the fraction f of x below bit k:
\* half to even
RoundHalfEven(j, x, d, h) ==
    IF (x[d + 1] \div PowersOfTwo[h + 1]) % 2 = 0 THEN j
    ELSE IF ~ZeroBelow(x, d, h) THEN j + 1
    ELSE j + (j % 2)

\* round(x) with the digits summed and no modulus taken
RoundWhole(x, k) ==
    IF IsZero(x) \/ k > 53 THEN 0
    ELSE IF k = 53 THEN (IF x = <<0, 0, 0, 1024, -53>> THEN 0 ELSE 1)
    ELSE RoundHalfEven(QuotientDigits(x, k \div 14, k % 14),
                       x, (k - 1) \div 14, (k - 1) % 14)

\* round(x % 16383) of a double 0 <= x < 2^52 with a fraction of k = -e >= 1
\* bits (the seed is below 1 and x below 10^14 < 2^47): below 0.5 it is 0,
\* at 0.5 it is 0, between 0.5 and 1 it is 1
RoundMod(x, k) ==
    IF IsZero(x) \/ k > 53 THEN 0
    ELSE IF k = 53 THEN (IF x = <<0, 0, 0, 1024, -53>> THEN 0 ELSE 1)
    ELSE RoundHalfEven(QuotientDigits(x, k \div 14, k % 14) % 16383,
                       x, (k - 1) \div 14, (k - 1) % 14)

RoundModOf(x) == RoundMod(x, -x[5])

\* random_number = round((seed * 10**14) % 16383)
RandomNumber(x) == RoundModOf(Times(x, TenToFourteen))

----------------------------------------------------------------------------
(* The fill loop of generate_tent_map_random_numbers.  A numpy array of n  *)
(* slots is held in rows of RowWidth slots, the last row shorter: slot i,  *)
(* counted from 0, is entry (i mod RowWidth) + 1 of row (i div RowWidth)   *)
(* + 1.                                                                    *)

Smaller(a, b) == IF a < b THEN a ELSE b

\* np.full(n, v)
Filled(n, v) ==
    Tabulate(LAMBDA r : Tabulate(LAMBDA c : v, Smaller(RowWidth, n - RowWidth * (r - 1))),
             (n + RowWidth - 1) \div RowWidth)

\* arr[i]
Slot(arr, i) == arr[(i \div RowWidth) + 1][(i % RowWidth) + 1]

\* arr after arr[i] = v
Stored(arr, i, v) == [arr EXCEPT ![(i \div RowWidth) + 1][(i % RowWidth) + 1] = v]

\* len(arr)
Slots(arr) == IF arr = <<>> THEN 0 ELSE RowWidth * (Len(arr) - 1) + Len(arr[Len(arr)])

\* unique_numbers = np.full(n, -1), number_present = np.zeros(n, dtype=bool),
\* insert_index = 0: the state at the head of the loop, for arrays of n slots
TentCall(x, n) ==
    /\ tent_pc = "idle"
    /\ tent_pc' = "loop"
    /\ seed' = x
    /\ random_number' = -1
    /\ insert_index' = 0
    /\ unique_numbers' = Filled(n, -1)
    /\ number_present' = Filled(n, FALSE)
    /\ passes' = 0

\* the variables of the loop
TentState ==
    [seed |-> seed, random_number |-> random_number, insert_index |-> insert_index,
     unique_numbers |-> unique_numbers, number_present |-> number_present]

\* a loop that takes every number for a new one
AlwaysAbsent(st, rn) == TRUE

\* if not number_present[random_number]
Absent(st, rn) == ~Slot(st.number_present, rn)

\* The body of the while loop on the state st, when the tent map gives the
\* seed x and the number rn
PassOf(st, x, rn) ==
    IF Absent(st, rn)
    THEN [seed |-> x, random_number |-> rn,
          insert_index |-> st.insert_index + 1,
          unique_numbers |-> Stored(st.unique_numbers, st.insert_index, rn),
          number_present |-> Stored(st.number_present, rn, TRUE)]
    ELSE [st EXCEPT !.seed = x, !.random_number = rn]

TentStore(st) ==
    /\ seed' = st.seed
    /\ random_number' = st.random_number
    /\ insert_index' = st.insert_index
    /\ unique_numbers' = st.unique_numbers
    /\ number_present' = st.number_present

\* A pass of the while loop that leaves the seed at x and computes rn
TentPass(x, rn) ==
    /\ tent_pc = "loop"
    /\ insert_index < Slots(unique_numbers)
    /\ TentStore(PassOf(TentState, x, rn))
    /\ UNCHANGED tent_pc

\* while insert_index < 16384 fails: return unique_numbers
TentReturn ==
    /\ tent_pc = "loop"
    /\ insert_index >= Slots(unique_numbers)
    /\ tent_pc' = "returned"
    /\ UNCHANGED <<seed, random_number, insert_index, unique_numbers, number_present, passes>>
    /\ UNCHANGED <<codecVars, splitVars, recVars, detVars, embVars, chVars, hidVars, apiVars>>

(* The loop for any seed.  random_number is round(y) of a double           *)
(* 0 <= y < 16383, one of 0 .. 16383, whatever the seed: any of them may   *)
(* come in any pass.  The arrays are scaled from 16384 slots to NumSlots.  *)

CallAny ==
    /\ TentCall("any", NumSlots)
    /\ UNCHANGED <<codecVars, splitVars, recVars, detVars, embVars, chVars, hidVars, apiVars>>

PassAny ==
    /\ tent_pc = "loop"
    /\ \E rn \in 0..(NumSlots - 1) : TentPass(seed, rn)
    /\ UNCHANGED passes
    /\ UNCHANGED <<codecVars, splitVars, recVars, detVars, embVars, chVars, hidVars, apiVars>>

TentAnyNext == CallAny \/ PassAny \/ TentReturn

SpecTentAny == Init /\ [][TentAnyNext]_vars

(* The loop for the seeds of encrypt_image, with the doubles of the code   *)
(* and its 16384 slots.  A step is a run of MaxRun passes of the loop, or  *)
(* of those that are left; passes counts them, up to MaxPasses.            *)

\* generate_tent_map_random_numbers(pow(10, -5)) and (pow(10, -8))
CanonicalSeeds == {SeedOne, SeedTwo}

\* a pass with the seed and the number computed as the code computes them
PassAt(st, x) == PassOf(st, x, RandomNumber(x))

ComputedPass(st) == PassAt(st, TentMap(st.seed))

\* the loop state and the count of passes after one more pass
CountedPass(run) == [loop |-> ComputedPass(run.loop), passes |-> run.passes + 1]

\* the same after at most budget passes, the first half of them and then
\* the rest; the loop ends when every slot is filled
RECURSIVE RunOf(_, _)
RunOf(run, budget) ==
    IF budget = 0 \/ run.loop.insert_index >= Slots(run.loop.unique_numbers) THEN run
    ELSE IF budget = 1 THEN CountedPass(run)
    ELSE RunOf(RunOf(run, budget \div 2), budget - (budget \div 2))

RunStore(run) == TentStore(run.loop) /\ passes' = run.passes

CallCanonical ==
    /\ tent_pc = "idle"
    /\ \E x \in CanonicalSeeds : TentCall(x, 16384)
    /\ UNCHANGED <<codecVars, splitVars, recVars, detVars, embVars, chVars, hidVars, apiVars>>

Passes ==
    /\ tent_pc = "loop"
    /\ insert_index < Slots(unique_numbers)
    /\ passes < MaxPasses
    /\ RunStore(RunOf([loop |-> TentState, passes |-> passes],
                      Smaller(MaxRun, MaxPasses - passes)))
    /\ UNCHANGED tent_pc
    /\ UNCHANGED <<codecVars, splitVars, recVars, detVars, embVars, chVars, hidVars, apiVars>>

TentNext == CallCanonical \/ Passes \/ TentReturn

SpecTent == Init /\ [][TentNext]_vars

(* The loop entered with the seed at sampled doubles of (0, 1), a pass at  *)
(* a time: the doubles whose mantissa digits are lowest, highest or in     *)
(* between, from [0.5, 1) down by factors of 2^7, and the seed that the    *)
(* run from pow(10, -5) holds after 33487 passes.                          *)

\* the seed of generate_tent_map_random_numbers(pow(10, -5)) after 33487
\* passes, 0x1.7188e446dcc71p-1
SeedBeforeTop == <<3185, 4535, 2276, 1478, -53>>

SampledSeeds ==
    {<<m0, m1, m2, m3, -53 - (7 * k)>> :
        m0 \in {0, 1, 16383}, m1 \in {0, 16383}, m2 \in {0, 16383},
        m3 \in {1024, 1535, 2047}, k \in 0..(NumExponents - 1)}
    \cup {SeedBeforeTop}

CallSampled ==
    /\ tent_pc = "idle"
    /\ \E x \in SampledSeeds : TentCall(x, 16384)
    /\ UNCHANGED <<codecVars, splitVars, recVars, detVars, embVars, chVars, hidVars, apiVars>>

\* whether arr[i] is an element: an index outside -len(arr) .. len(arr) - 1
\* raises IndexError
InArray(arr, i) == i \in (0 - Slots(arr))..(Slots(arr) - 1)

\* one pass of the while loop; number_present[random_number] raises when
\* random_number is no index of the array
OnePass ==
    /\ tent_pc = "loop"
    /\ insert_index < Slots(unique_numbers)
    /\ passes < MaxSteps
    /\ IF InArray(number_present, RandomNumber(TentMap(seed)))
       THEN /\ RunStore(CountedPass([loop |-> TentState, passes |-> passes]))
            /\ UNCHANGED tent_pc
       ELSE /\ tent_pc' = "IndexError"
            /\ seed' = TentMap(seed)
            /\ random_number' = RandomNumber(seed')
            /\ passes' = passes + 1
            /\ UNCHANGED <<insert_index, unique_numbers, number_present>>
    /\ UNCHANGED <<codecVars, splitVars, recVars, detVars, embVars, chVars, hidVars, apiVars>>

TentSampledNext == CallSampled \/ OnePass

SpecTentSampled == Init /\ [][TentSampledNext]_vars

-----------------------------------------------------------------------------
(* The endpoints of main.py.  A request is read and validated, processed,  *)
(* and answered; whatever is raised inside the try block, the HTTPException*)
(* of the validation included, goes through the except clause.             *)

\* the classes an exception is an instance of: starlette's HTTPException
\* derives from Exception
Bases ==
    [HTTPException |-> {"HTTPException", "Exception"},
     Exception |-> {"Exception"}]

IsInstance(e, cls) == cls \in Bases[e.type]

\* HTTPException(status_code=..., detail=...)
HTTPException(status_code, detail) ==
    [type |-> "HTTPException", status_code |-> status_code, detail |-> detail]

\* an exception of the image, file or zip handling, with its message
Failure(message) == [type |-> "Exception", message |-> message]

\* str(e), in parts.  Of an HTTPException it is "" or
\* f"{status_code}: {detail}", as the installed starlette defines __str__
StrOf(e) ==
    IF e.type = "HTTPException" THEN {<<>>, <<e.status_code, ": ", e.detail>>}
    ELSE {<<e.message>>}

InvalidImage == "Invalid image. Please provide a 256x256 RGB image."
NotAZip == "Please provide a ZIP file containing shares and recovery data"

\* cv2.imdecode(nparr, cv2.IMREAD_COLOR): None, or an array of three
\* channels
DecodedImages ==
    {[decoded |-> FALSE]}
    \cup {[decoded |-> TRUE, shape |-> <<h, w, 3>>] : h \in {1, 255, 256, 257},
                                                      w \in {1, 255, 256, 257}}

\* img is None or img.shape != (256, 256, 3)
InvalidShape(img) == ~img.decoded \/ img.shape # <<256, 256, 3>>

\* the filenames of at most n characters
RECURSIVE Filenames(_)
Filenames(n) ==
    IF n = 0 THEN {<<>>}
    ELSE Filenames(n - 1)
         \cup {Append(f, c) : f \in Filenames(n - 1), c \in {".", "z", "i", "p", "Z"}}

\* s.endswith(suffix)
endswith(s, suffix) ==
    /\ Len(s) >= Len(suffix)
    /\ SubSeq(s, Len(s) - Len(suffix) + 1, Len(s)) = suffix

ZipSuffix == <<".", "z", "i", "p">>

\* raise ... inside the try block
Raise(e) ==
    /\ api_pc' = "raised"
    /\ api_e' = e

\* image.read(), np.frombuffer, cv2.imdecode
EncryptUpload ==
    /\ api_pc = "idle"
    /\ api_pc' = "encrypt"
    /\ api_endpoint' = "encrypt"
    /\ \E img \in DecodedImages : api_img' = img
    /\ UNCHANGED <<api_filename, api_e, api_calls, api_response>>
    /\ UNCHANGED <<codecVars, splitVars, recVars, detVars, embVars, chVars, tentVars, hidVars>>

\* if img is None or img.shape != (256, 256, 3): raise HTTPException(400)
EncryptValidate ==
    /\ api_pc = "encrypt"
    /\ IF InvalidShape(api_img)
       THEN Raise(HTTPException(400, InvalidImage))
       ELSE api_pc' = "processing" /\ UNCHANGED api_e
    /\ UNCHANGED <<api_endpoint, api_img, api_filename, api_calls, api_response>>
    /\ UNCHANGED <<codecVars, splitVars, recVars, detVars, embVars, chVars, tentVars, hidVars>>

DecryptUpload ==
    /\ api_pc = "idle"
    /\ api_pc' = "decrypt"
    /\ api_endpoint' = "decrypt"
    /\ \E f \in Filenames(MaxNameLen) : api_filename' = f
    /\ UNCHANGED <<api_img, api_e, api_calls, api_response>>
    /\ UNCHANGED <<codecVars, splitVars, recVars, detVars, embVars, chVars, tentVars, hidVars>>

\* if not encrypted_package.filename.endswith('.zip'): raise HTTPException(400)
DecryptValidate ==
    /\ api_pc = "decrypt"
    /\ IF ~endswith(api_filename, ZipSuffix)
       THEN Raise(HTTPException(400, NotAZip))
       ELSE api_pc' = "processing" /\ UNCHANGED api_e
    /\ UNCHANGED <<api_endpoint, api_img, api_filename, api_calls, api_response>>
    /\ UNCHANGED <<codecVars, splitVars, recVars, detVars, embVars, chVars, tentVars, hidVars>>

\* The rest of the try block: encrypt_image(img) at once, or decrypt_image
\* after the files are unpacked and read; then the result is written and
\* returned as a FileResponse, unless a step raises
Process ==
    /\ api_pc = "processing"
    /\ \E called \in BOOLEAN, returned \in BOOLEAN :
          /\ (api_endpoint = "encrypt" \/ returned) => called
          /\ api_calls' = api_calls + (IF called THEN 1 ELSE 0)
          /\ IF returned
             THEN /\ api_pc' = "responded"
                  /\ api_response' = [status_code |-> 200, detail |-> <<>>]
                  /\ UNCHANGED api_e
             ELSE /\ Raise(Failure("error"))
                  /\ UNCHANGED api_response
    /\ UNCHANGED <<api_endpoint, api_img, api_filename>>
    /\ UNCHANGED <<codecVars, splitVars, recVars, detVars, embVars, chVars, tentVars, hidVars>>

\* except Exception as e: raise HTTPException(status_code=500, detail=str(e)),
\* which leaves the endpoint and is answered by the framework
Handle ==
    /\ api_pc = "raised"
    /\ IsInstance(api_e, "Exception")
    /\ api_pc' = "responded"
    /\ \E detail \in StrOf(api_e) :
          api_response' = [status_code |-> HTTPException(500, detail).status_code,
                           detail |-> HTTPException(500, detail).detail]
    /\ UNCHANGED <<api_endpoint, api_img, api_filename, api_e, api_calls>>
    /\ UNCHANGED <<codecVars, splitVars, recVars, detVars, embVars, chVars, tentVars, hidVars>>

ApiNext ==
    EncryptUpload \/ EncryptValidate \/ DecryptUpload \/ DecryptValidate \/ Process \/ Handle

SpecApi == Init /\ [][ApiNext]_vars

----------------------------------------------------------------------------
(* C3: POB bijection.  For n in {5, 8, 10}, r in [0, n] and 0 <= v <       *)
(* C(n, r), pob(n, r, v) is an n-bit vector of weight r whose              *)
(* calculate_pob_value is v; and for every n-bit vector B,                 *)
(* pob(n, popcount(B), calculate_pob_value(B)) = B.                        *)
PobBijection ==
    /\ (codec_pc \in {"decoded", "reencoded"} /\ ValidPair(n_in, r_in, v_in))
         => /\ Len(B_out) = n_in
            /\ \A k \in 1..n_in : B_out[k] \in Bit
            /\ popcount(B_out) = r_in
    /\ (codec_pc = "reencoded" /\ ValidPair(n_in, r_in, v_in)) => v_out = v_in
    /\ codec_pc = "redecoded" => B_out = B_in

\* a valid pair of the widest code, of middle weight, decoded and re-encoded
PobBijectionWitness ==
    /\ codec_pc = "reencoded"
    /\ n_in = 10 /\ r_in = 5 /\ v_in = 251
    /\ B_out = <<1, 1, 1, 1, 1, 0, 0, 0, 0, 0>>

(* C8: a corrupted pair for n = 10 (r > 10 or v >= C(10, r)) makes the     *)
(* extractor's pob call fail with InvalidWeight instead of returning.      *)
CorruptedPairRaises ==
    (codec_pc = "decoded" /\ n_in = 10 /\ ~ValidPair(10, r_in, v_in))
        => pob_outcome = "InvalidWeight"

\* What the code does there: every pob call on a corrupted pair returns a
\* 10-bit vector.
CorruptedPairReturns ==
    (codec_pc = "decoded" /\ n_in = 10 /\ ~ValidPair(10, r_in, v_in))
        => pob_outcome = "returned" /\ Len(B_out) = 10

----------------------------------------------------------------------------
(* C4: sibling XOR.  For every pixel p and every outcome of the random     *)
(* bits, pob(8, r1, share_1) XOR pob(8, r2, share_2) is the MSB-first      *)
(* 8-bit vector of p, at the same pixel position.                          *)
SiblingXor ==
    split_pc = "split" =>
        \A row \in 1..ImgRows, col \in 1..ImgCols :
            bitwise_xor(pob(8, shares.r1[row][col], shares.share_1[row][col]),
                        pob(8, shares.r2[row][col], shares.share_2[row][col]))
              = Bits8(image[row][col])

\* a split of a channel holding 255 in its first pixel under a non-zero mask
SiblingXorWitness ==
    /\ split_pc = "split"
    /\ image[1][1] = 255
    /\ shares.r1[1][1] \notin {0, 8}
    /\ shares.r1[1][1] + shares.r2[1][1] = 8
    /\ image[2][ImgCols] # 255
    /\ shares.share_1[2][ImgCols] # shares.share_2[2][ImgCols]

----------------------------------------------------------------------------
\* the number a bit vector spells, MSB first
BitsValue(bits) == SumSeq(Tabulate(LAMBDA k : bits[k] * Pow2(Len(bits) - k), Len(bits)))

(* C9: the recovery code is the low 5 bits of the block mean.  For every   *)
(* 2x2 block with mean m = floor(sum / 4), the 5-bit vector of             *)
(* generate_recovery_watermark before scattering, read MSB first, is       *)
(* m mod 32.                                                               *)
RecoveryCodeIsLowFiveBits ==
    rec_pc = "done" =>
        \A k \in 1..NumBlocks :
            BitsValue(recovery_watermark[k])
              = (SumSeq(Blocks(rec_image)[k]) \div 4) % 32

\* What the code computes: the mean itself below 32, and otherwise the five
\* leading binary digits of the mean, floor(m / 2^(L-5)) for a mean of L digits.
RecoveryCodeIsLeadingFiveBits ==
    rec_pc = "done" =>
        \A k \in 1..NumBlocks :
            LET m == SumSeq(Blocks(rec_image)[k]) \div 4 IN
            BitsValue(recovery_watermark[k])
              = IF m < 32 THEN m
                ELSE IF m < 64 THEN m \div 2
                ELSE IF m < 128 THEN m \div 4
                ELSE m \div 8

(* C10: tamper flagging.  Block i is in blocks_tampered exactly when the   *)
(* tuples dw[i] and rdw[i] differ in at least one bit, blocks with equal   *)
(* tuples are never flagged, and count11 is the number of flagged blocks.  *)
FlaggedIffTuplesDiffer ==
    det_pc = "done" =>
        /\ \A i \in 0..(NumBlocks - 1) :
              (\E k \in 1..Len(det_out.blocks_tampered) : det_out.blocks_tampered[k] = i)
                <=> dw[i + 1] # rdw[i + 1]
        /\ det_out.count11 = Len(det_out.blocks_tampered)

\* What the code computes: a block is flagged exactly when one tuple is all
\* ones and the other is not.
FlaggedIffAllOnesDiffer ==
    det_pc = "done" =>
        /\ \A i \in 0..(NumBlocks - 1) :
              (\E k \in 1..Len(det_out.blocks_tampered) : det_out.blocks_tampered[k] = i)
                <=> (AllBits(dw[i + 1]) # AllBits(rdw[i + 1]))
        /\ det_out.count11 = Len(det_out.blocks_tampered)

----------------------------------------------------------------------------
(* C5: embedding invertibility.  For every valid pre-embedding share and   *)
(* every watermark input, receiver_extraction on the untampered output of  *)
(* generate_embedded_shares returns the same POB(8) index at every pixel   *)
(* position, the same 3 detection bits and the same 5 recovery bits of     *)
(* every block, in the same order.                                         *)
EmbeddingInvertible ==
    emb_pc = "extracted" =>
        /\ extraction.share1 = emb_in.S1
        /\ extraction.share2 = emb_in.S2
        /\ extraction.dw1 = emb_in.DW1
        /\ extraction.dw2 = emb_in.DW2
        /\ extraction.dr1 = emb_in.RW1
        /\ extraction.dr2 = emb_in.RW2

\* an extraction whose watermarks are mixed and differ between the blocks
\* and between the shares, from shares that differ from cell to cell
EmbeddingInvertibleWitness ==
    /\ emb_pc = "extracted"
    /\ emb_in.DW1[1] = <<1, 0, 1>>
    /\ emb_in.RW1[1] = <<1, 0, 1, 1, 0>>
    /\ emb_in.RW1[NumBlocks] # emb_in.RW1[1]
    /\ emb_in.DW2 # emb_in.DW1
    /\ emb_in.S1[1][2] # emb_in.S1[2][1]
    /\ embedded.ES1[1][1] # emb_in.S1[1][1]

----------------------------------------------------------------------------
(* C1: lossless round trip.  For every channel and every outcome of the    *)
(* random draws, process_channel_decryption on the (ES1, ES2, R3, R4) of   *)
(* process_channel_encryption returns the channel, equal at every pixel    *)
(* position.                                                               *)
RoundTrip ==
    ch_pc = "decrypted" =>
        \A row \in 1..ImgRows, col \in 1..ImgCols :
            extracted_channel[row][col] = channel_array[row][col]

\* a decrypted run of a channel that holds 255 and other values, whose two
\* carriers differ from each other and from the channel
RoundTripWitness ==
    /\ ch_pc = "decrypted"
    /\ channel_array[1][1] = 255
    /\ channel_array[2][1] # 255
    /\ ch_out.ES1 # ch_out.ES2
    /\ ch_out.ES1 # channel_array
    /\ ch_mid.RW1 # ch_mid.RW2

----------------------------------------------------------------------------
\* the block (from 1) and the cell (1..4) that hold pixel (row, col)
BlockOf(row, col) == ((row - 1) \div 2) * BlockCols + ((col - 1) \div 2) + 1
CellOf(row, col) == 2 * ((row - 1) % 2) + ((col - 1) % 2) + 1

\* the detection bits that reach cell c, the others at 0
DetectionChoices(c) ==
    IF c = 1 THEN {<<0, 0, 0>>, <<0, 1, 0>>, <<1, 0, 0>>, <<1, 1, 0>>}
    ELSE IF c = 2 THEN {<<0, 0, 0>>, <<0, 0, 1>>}
    ELSE {<<0, 0, 0>>}

FirstCarrier(out, c, dwk, rwk) ==
    calculate_pob_value(ExtendedCell(out.r1, out.share_1, c, dwk, rwk))

SecondCarrier(out, c, dwk, rwk) ==
    calculate_pob_value(ExtendedCell(out.r2, out.share_2, c, dwk, rwk))

\* The values cell c of ES1 can hold over the random draws, for the pixel p
\* under it and the recovery bits rwk of its block: one per row of r (the
\* sibling a runs through every 8-bit vector, whatever the fill) and per
\* choice of the detection bits.  For c = 3 and c = 4, which hold recovery
\* bits only, these are exactly the values the code can output.
FirstCarriers(p, fill, c, rwk) ==
    {FirstCarrier(SplitPixel(p, fill, mask), c, dwk, rwk) :
        mask \in BitVectors(8), dwk \in DetectionChoices(c)}

SecondCarriers(p, fill, c, rwk) ==
    {SecondCarrier(SplitPixel(p, fill, mask), c, dwk, rwk) :
        mask \in BitVectors(8), dwk \in DetectionChoices(c)}

(* C2 as stated: a single carrier share reveals nothing about the cover.   *)
(* For any two covers C and C' the set of carriers ES1 (likewise ES2) that *)
(* encryption can output over all random draws is the same: the ES1 (ES2)  *)
(* output for C is possible for C', so each of its cells holds a value the *)
(* carrier of C' can hold there.                                           *)
CarrierHidesCover ==
    hid_pc = "encrypted" =>
        \A row \in 1..ImgRows, col \in 1..ImgCols :
            /\ hid_run.out.ES1[row][col]
                  \in FirstCarriers(hid_other[row][col],
                                    hid_run.draw.fill[(row - 1) * ImgCols + col],
                                    CellOf(row, col),
                                    hid_first.mid.RW1[BlockOf(row, col)])
            /\ hid_run.out.ES2[row][col]
                  \in SecondCarriers(hid_other[row][col],
                                     hid_run.draw.fill[(row - 1) * ImgCols + col],
                                     CellOf(row, col),
                                     hid_second.mid.RW2[BlockOf(row, col)])

(* C2 amended: for two covers C and C' with the same recovery watermark,   *)
(* the carrier ES1 (likewise ES2) output for C under a draw is output for  *)
(* C' under another draw; and whatever the recovery watermarks, the        *)
(* pre-embedding share S1 with R1 (S2 with R2) of C is output for C'.      *)
CarrierHidesCoverUpToRecovery ==
    hid_pc = "encrypted" =>
        /\ hid_first.mid.S1 = hid_run.mid.S1 /\ hid_first.mid.R1 = hid_run.mid.R1
        /\ hid_second.mid.S2 = hid_run.mid.S2 /\ hid_second.mid.R2 = hid_run.mid.R2
        /\ hid_first.mid.RW1 = hid_run.mid.RW1 => hid_first.out.ES1 = hid_run.out.ES1
        /\ hid_second.mid.RW2 = hid_run.mid.RW2 => hid_second.out.ES2 = hid_run.out.ES2

\* two covers that differ in every pixel and have the same recovery
\* watermarks, the second under other arrays r, with the same carriers
CarrierHidesCoverWitness ==
    /\ hid_pc = "encrypted"
    /\ \A row \in 1..ImgRows, col \in 1..ImgCols : hid_cover[row][col] # hid_other[row][col]
    /\ hid_first.mid.RW1 = hid_run.mid.RW1
    /\ hid_second.mid.RW2 = hid_run.mid.RW2
    /\ hid_first.draw.mask # hid_run.draw.mask
    /\ \A j \in 1..NumPixels : hid_second.draw.mask[j] # hid_first.draw.mask[j]
    /\ hid_first.out.ES1 = hid_run.out.ES1
    /\ hid_second.out.ES2 = hid_run.out.ES2

----------------------------------------------------------------------------
(* C7: the tent-map output is a permutation.  Whenever                     *)
(* generate_tent_map_random_numbers returns, its output holds one entry    *)
(* per slot, pairwise distinct and each a slot index (no repeated value,   *)
(* no -1 left); throughout the loop the filled prefix                      *)
(* unique_numbers[0..insert_index) has no duplicates and number_present    *)
(* marks exactly its values.                                               *)
TentPermutation ==
    tent_pc \in {"loop", "returned"} =>
        /\ \A i \in 0..(insert_index - 1), j \in 0..(insert_index - 1) :
              i # j => Slot(unique_numbers, i) # Slot(unique_numbers, j)
        /\ \A v \in 0..(Slots(number_present) - 1) :
              Slot(number_present, v)
                <=> \E i \in 0..(insert_index - 1) : Slot(unique_numbers, i) = v
        /\ tent_pc = "returned" =>
              /\ insert_index = Slots(unique_numbers)
              /\ \A i \in 0..(Slots(unique_numbers) - 1) :
                    Slot(unique_numbers, i) \in 0..(Slots(unique_numbers) - 1)
              /\ \A v \in 0..(Slots(unique_numbers) - 1) :
                    \E i \in 0..(Slots(unique_numbers) - 1) : Slot(unique_numbers, i) = v

\* a returned array that starts with the last slot index and ends with 0,
\* the number of the last pass
TentPermutationWitness ==
    /\ tent_pc = "returned"
    /\ Slots(unique_numbers) = NumSlots
    /\ Slot(unique_numbers, 0) = NumSlots - 1
    /\ Slot(unique_numbers, NumSlots - 1) = 0
    /\ random_number = 0

----------------------------------------------------------------------------
(* C6: the fill loop terminates for the two canonical seeds.  For          *)
(* generate_tent_map_random_numbers(1e-5) and (1e-8) the loop reaches      *)
(* insert_index = 16384 after finitely many passes: it never makes         *)
(* MaxPasses passes with a slot still unfilled.                            *)
TentTerminates ==
    (tent_pc = "loop" /\ seed # "any") =>
        (passes < MaxPasses \/ insert_index = 16384)

\* the loop has returned for the seed 1e-8, after the passes it takes, with
\* every slot filled
TentTerminatesWitness ==
    /\ tent_pc = "returned"
    /\ passes = 238906
    /\ insert_index = 16384
    /\ Slot(unique_numbers, 0) = 1273
    /\ Slot(unique_numbers, 1) = 2544
    /\ Cardinality({Slot(unique_numbers, i) : i \in 0..16383}) = 16384

-----------------------------------------------------------------------------
(* C11: the numbers the generator emits.  As stated: in every pass of the  *)
(* loop of generate_tent_map_random_numbers, for every seed in (0, 1), the *)
(* computed random_number lies in [0, 16382], so that 16383 is never       *)
(* emitted.                                                                *)
NeverEmitsTop ==
    passes > 0 => (tent_pc # "IndexError" /\ random_number \in 0..16382)

(* C11, amended: in every pass of the loop, for every seed in (0, 1), the  *)
(* computed random_number lies in [0, 16383]; 16383 is emitted when        *)
(* (seed * 10**14) % 16383 is 16382.5 or more.  The number is an index of  *)
(* number_present: the pass raises no IndexError.                          *)
EmitsUpToTop ==
    passes > 0 => (tent_pc # "IndexError" /\ random_number \in 0..16383)

\* the pass that emits 16383 and stores it in the first slot
EmitsUpToTopWitness ==
    /\ tent_pc = "loop"
    /\ passes = 1
    /\ random_number = 16383
    /\ insert_index = 1
    /\ Slot(unique_numbers, 0) = 16383
    /\ Slot(number_present, 16383)

-----------------------------------------------------------------------------
(* C12: carrier and weight ranges.  For every valid input of               *)
(* generate_embedded_shares and every cell, the weight R3 is in [0, 10]    *)
(* and the carrier value ES1 is in [0, C(10, R3)), hence below 252 and in  *)
(* 8 bits; the same for ES2 and R4: every (weight, index) pair handed to   *)
(* the extractor is a valid POB(10) pair.                                  *)
ValidCarrier(es, w) ==
    \A row \in 1..ImgRows, col \in 1..ImgCols :
        /\ w[row][col] \in 0..10
        /\ ValidPair(10, w[row][col], es[row][col])
        /\ es[row][col] < 252
        /\ es[row][col] \in 0..255

CarrierRanges ==
    emb_pc = "embedded" =>
        /\ ValidCarrier(embedded.ES1, embedded.R3)
        /\ ValidCarrier(embedded.ES2, embedded.R4)

\* valid shares go in; the first cell of ES1 comes out with the highest
\* index, 251 at weight 5, and the first cell of ES2 with another pair
CarrierRangesWitness ==
    /\ emb_pc = "embedded"
    /\ \A row \in 1..ImgRows, col \in 1..ImgCols :
          /\ ValidPair(8, emb_in.R1[row][col], emb_in.S1[row][col])
          /\ ValidPair(8, emb_in.R2[row][col], emb_in.S2[row][col])
    /\ embedded.R3[1][1] = 5
    /\ embedded.ES1[1][1] = 251
    /\ embedded.ES2[1][1] # embedded.ES1[1][1]

-----------------------------------------------------------------------------
(* C13: input rejection at the HTTP boundary.  When the upload to          *)
(* /api/v1/encrypt does not decode to an array of shape (256, 256, 3), the *)
(* endpoint never calls encrypt_image and the client receives status 400   *)
(* with the 'Invalid image' detail; a /api/v1/decrypt upload whose         *)
(* filename does not end in .zip is answered with status 400.              *)
RejectedEncrypt == api_endpoint = "encrypt" /\ api_pc # "idle" /\ InvalidShape(api_img)

RejectedDecrypt == api_endpoint = "decrypt" /\ ~endswith(api_filename, ZipSuffix)

RejectsWithStatus400 ==
    /\ RejectedEncrypt => api_calls = 0
    /\ (RejectedEncrypt /\ api_pc = "responded") =>
          api_response = [status_code |-> 400, detail |-> InvalidImage]
    /\ (RejectedDecrypt /\ api_pc = "responded") => api_response.status_code = 400

(* What the endpoints do: the rejected upload calls neither encrypt_image  *)
(* nor decrypt_image, and the client receives status 500, with str() of    *)
(* the HTTPException of the validation as the detail.                      *)
RejectsWithStatus500 ==
    /\ (RejectedEncrypt \/ RejectedDecrypt) => api_calls = 0
    /\ (RejectedEncrypt /\ api_pc = "responded") =>
          /\ api_response.status_code = 500
          /\ api_response.detail \in {<<>>, <<400, ": ", InvalidImage>>}
    /\ (RejectedDecrypt /\ api_pc = "responded") =>
          /\ api_response.status_code = 500
          /\ api_response.detail \in {<<>>, <<400, ": ", NotAZip>>}
====
